---- MODULE Spec2Model ----
(***************************************************************************)
(* Model of src/index.js: the challenge test engine (Challenge.test,       *)
(* runTest), the keypress-driven session loop (Challenge.run), the         *)
(* CharReader keypress queue and the validator (validateChallengeById).    *)
(***************************************************************************)
EXTENDS Integers, Sequences, FiniteSets, TLC

\* ------------------------------------------------------------------------
\* Bounds of the model
\* ------------------------------------------------------------------------
\* numbers a solution can return lie within Radius of the expected 5
Radius == 3
\* largest benchmark mean (in time units) the benchmark can report
MaxMean == 2
\* number of keys the user presses in one session
MaxKeys == 2
\* keys waiting in stdin that were not yet delivered as keypress events
MaxBuf == 2
\* number of reads callers make of the CharReader on its own
MaxReads == 3
\* number of calls of runTest made one after the other in one process
MaxCalls == 3

\* ------------------------------------------------------------------------
\* JavaScript values
\* ------------------------------------------------------------------------
Num(n) == [t |-> "number", v |-> n]
Str(s) == [t |-> "string", v |-> s]
Bool(b) == [t |-> "boolean", v |-> b]
Undefined == [t |-> "undefined"]
Null == [t |-> "null"]
NaN == [t |-> "NaN"]
PosInf == [t |-> "Infinity"]
NegInf == [t |-> "-Infinity"]

\* typeof v === 'number'
TypeofNumber(v) == v.t \in {"number", "NaN", "Infinity", "-Infinity"}

\* the numerals the model can print and parse
NumRange == (0 - 2 * (5 + Radius)) .. (2 * (5 + Radius))

\* Number.prototype.toString for an integer
NumText(n) == IF n < 0 THEN "-" \o ToString(0 - n) ELSE ToString(n)

\* JSON.stringify(v): a string, or undefined for undefined
JSONstringify(v) ==
  CASE v.t = "number" -> Str(NumText(v.v))
    [] v.t \in {"NaN", "Infinity", "-Infinity"} -> Str("null")
    [] v.t = "string" -> Str("\"" \o v.v \o "\"")
    [] v.t = "boolean" -> Str(IF v.v THEN "true" ELSE "false")
    [] v.t = "null" -> Str("null")
    [] v.t = "undefined" -> Undefined

\* ToNumber applied to a string: a numeral parses, the empty string is 0,
\* anything else is NaN
StringToNumber(s) ==
  IF s = "" THEN Num(0)
  ELSE IF \E n \in NumRange : NumText(n) = s
       THEN Num(CHOOSE n \in NumRange : NumText(n) = s)
  ELSE IF s = "Infinity" THEN PosInf
  ELSE IF s = "-Infinity" THEN NegInf
  ELSE NaN

\* ToNumber(v)
ToNumber(v) ==
  CASE TypeofNumber(v) -> v
    [] v.t = "string" -> StringToNumber(v.v)
    [] v.t = "boolean" -> Num(IF v.v THEN 1 ELSE 0)
    [] v.t = "null" -> Num(0)
    [] v.t = "undefined" -> NaN

\* ToBoolean(v)
Truthy(v) ==
  CASE v.t = "number" -> v.v # 0
    [] v.t \in {"Infinity", "-Infinity"} -> TRUE
    [] v.t = "string" -> v.v # ""
    [] v.t = "boolean" -> v.v
    [] OTHER -> FALSE

IsNullish(v) == v.t \in {"undefined", "null"}

\* a == b (abstract equality) on the values above
LooseEq(a, b) ==
  IF IsNullish(a) \/ IsNullish(b) THEN IsNullish(a) /\ IsNullish(b)
  ELSE IF a.t = "string" /\ b.t = "string" THEN a.v = b.v
  ELSE LET x == ToNumber(a)
           y == ToNumber(b)
       IN  x.t # "NaN" /\ y.t # "NaN" /\ x = y

\* twice the numeric value of a finite number, as an integer
Twice(v) == 2 * v.v

\* variant: the lower end of the tolerance is excluded
GeqLowStrict(x, res, delta) ==
  CASE x.t = "number" -> Twice(x) > Twice(res) - delta.v
    [] x.t = "Infinity" -> TRUE
    [] OTHER -> FALSE

\* x >= res - delta/2, for finite res and delta (compared on doubled values)
GeqLow(x, res, delta) ==
  CASE x.t = "number" -> Twice(x) >= Twice(res) - delta.v
    [] x.t = "Infinity" -> TRUE
    [] OTHER -> FALSE

\* x <= res + delta/2, for finite res and delta (compared on doubled values)
LeqHigh(x, res, delta) ==
  CASE x.t = "number" -> Twice(x) <= Twice(res) + delta.v
    [] x.t = "-Infinity" -> TRUE
    [] OTHER -> FALSE

\* testResult >= test.res - test.delta/2 && testResult <= test.res + test.delta/2
WithinDelta(testResult, res, delta) ==
  /\ GeqLow(ToNumber(testResult), res, delta)
  /\ LeqHigh(ToNumber(testResult), res, delta)

\* a > b on finite numbers (result.time > test.max_time_s)
Greater(a, b) == a.v > b.v

\* ------------------------------------------------------------------------
\* Evaluation of a solution text in a fresh context
\* ------------------------------------------------------------------------
Return(v) == [kind |-> "return", value |-> v]
Throw(e) == [kind |-> "throw", error |-> e]

\* the argument lists of the test cases, as the two numbers they denote
ArgsOf(args) ==
  CASE args = "2,3" -> <<2, 3>>
    [] args = "0,5" -> <<0, 5>>
    [] args = "4,1" -> <<4, 1>>
    [] OTHER -> <<0, 0>>

\* solution texts: what the file defines under the entry-point name
Const(v) == [kind |-> "const", v |-> v]
Code(k) == [kind |-> k]

\* what `${x}` gives for an x that is undefined
UndefinedText == "undefined"

\* vm.runInNewContext(content + ";" + fnName + "(" + args + ")"): the text
\* is parsed as a whole, then the callee is looked up, then it is called
Evaluate(content, fnName, args) ==
  LET a == ArgsOf(args)[1]
      b == ArgsOf(args)[2]
  IN IF content.kind = "syntax" THEN Throw("SyntaxError")
     ELSE IF fnName = UndefinedText THEN Throw("TypeError")
     ELSE IF content.kind \in {"nofn", UndefinedText}
     THEN Throw("ReferenceError")
     ELSE IF args = UndefinedText
     THEN CASE content.kind = "const" -> Return(content.v)
            [] content.kind = "addstr" -> Return(Str("NaN"))
            [] OTHER -> Return(NaN)
     ELSE CASE content.kind = "const" -> Return(content.v)
            [] content.kind = "add" -> Return(Num(a + b))
            [] content.kind = "sub" -> Return(Num(a - b))
            [] content.kind = "addstr" -> Return(Str(NumText(a + b)))
            [] content.kind = "throw0" ->
                 IF a = 0 THEN Throw("Error") ELSE Return(Num(a + b))
            [] content.kind = "mark" -> Return(Num(a + b))

\* outcome of the benchmark context: a mean time, or an exception
Mean(t) == [kind |-> "mean", mean |-> t]
BenchThrows == [kind |-> "throw", error |-> "BenchError"]
BenchOutcomes == {Mean(t) : t \in 1 .. MaxMean} \cup {BenchThrows}

\* ------------------------------------------------------------------------
\* runTest
\* ------------------------------------------------------------------------
\* variant: the returned value itself, not its serialized form, is compared
ComparePassRaw(testResult, test) ==
  IF LooseEq(testResult, test.res) THEN TRUE
  ELSE IF TypeofNumber(test.res) /\ Truthy(test.delta)
       THEN WithinDelta(testResult, test.res, test.delta)
  ELSE FALSE

\* lines 182-189: the correctness comparison
ComparePass(testResult, test) ==
  IF LooseEq(JSONstringify(testResult), test.res) THEN TRUE
  ELSE IF TypeofNumber(test.res) /\ Truthy(test.delta)
       THEN WithinDelta(testResult, test.res, test.delta)
  ELSE FALSE

\* variant: the benchmark does not depend on the comparison
BenchGuardNoPass(pass, test) == Truthy(test.max_time_s)

\* line 191: the guard of the benchmark step
BenchGuard(pass, test) == pass /\ Truthy(test.max_time_s)

\* variant: the comparison with the limit is inverted
TooSlowInverted(time, test) ==
  Truthy(test.max_time_s) /\ Greater(test.max_time_s, Num(time))

\* line 198: the measured mean is over the limit
TooSlow(time, test) ==
  Truthy(test.max_time_s) /\ Greater(Num(time), test.max_time_s)

\* variant: the caught exception is not put into the result
CaughtNoError(e) == [pass |-> FALSE]

\* lines 205-210: the result for an exception thrown inside the try block
Caught(e) == [pass |-> FALSE, error |-> e]

\* a vm context created by runTest, with what came out of it
EvalCall(ev) == [kind |-> "eval", out |-> ev]
BenchCall(bench) == [kind |-> "bench", out |-> bench]

\* `${test.args}`; a test case without args has no args field
ArgsText(test) ==
  IF "args" \in DOMAIN test THEN test.args ELSE UndefinedText

\* lines 172-211: runTest together with the vm contexts it creates, in order
runTestTrace(fnName, test, content, bench) ==
  LET ev == Evaluate(content, fnName, ArgsText(test))
  IN IF ev.kind = "throw"
     THEN [result |-> Caught(ev.error), calls |-> <<EvalCall(ev)>>]
     ELSE LET pass == ComparePass(ev.value, test)
              result == [pass |-> pass, res |-> ev.value]
          IN IF BenchGuard(pass, test)
             THEN [result |->
                     IF bench.kind = "throw"
                     THEN Caught(bench.error)
                     ELSE IF TooSlow(bench.mean, test)
                     THEN [pass |-> FALSE, res |-> ev.value,
                           time |-> bench.mean, validityPass |-> TRUE]
                     ELSE [pass |-> pass, res |-> ev.value,
                           time |-> bench.mean],
                   calls |-> <<EvalCall(ev), BenchCall(bench)>>]
             ELSE [result |-> result, calls |-> <<EvalCall(ev)>>]

\* the benchmark step of runTest is reached for this test case and text
Benchmarked(fnName, test, content) ==
  Len(runTestTrace(fnName, test, content, BenchThrows).calls) = 2

\* lines 193-195: the benchmark context gets the host's Benchmark function
\* object itself, so what a text wrote on it earlier is still there; the
\* text "mark" throws if it finds its mark `Benchmark.seen` and sets it
\* otherwise
BenchOutcomesIn(content, host) ==
  IF content.kind = "mark" /\ host.seen THEN {BenchThrows} ELSE BenchOutcomes

\* the outcomes the environment can give the benchmark step of one call
BenchChoices(fnName, test, content, host) ==
  IF Benchmarked(fnName, test, content)
  THEN BenchOutcomesIn(content, host)
  ELSE {BenchThrows}

\* the Benchmark object of the host after one call of runTest
HostAfter(host, content, tr) ==
  IF Len(tr.calls) = 2 /\ content.kind = "mark"
  THEN [seen |-> TRUE]
  ELSE host

runTest(fnName, test, content, bench) ==
  runTestTrace(fnName, test, content, bench).result

\* ------------------------------------------------------------------------
\* Challenge records (the parsed challenges.yml)
\* ------------------------------------------------------------------------
TestCase(args, res, delta, visible, max_time_s) ==
  [args |-> args, res |-> res, delta |-> delta, visible |-> visible,
   max_time_s |-> max_time_s]

Entry(name, value) == [name |-> name, value |-> value]

\* largest integer-like property name used by a challenge
MaxIndexName == 3

\* a property name that is a canonical array index
IsIndexName(s) == \E n \in 0 .. MaxIndexName : ToString(n) = s

\* for (const k in obj): integer-like keys first, in ascending order, then
\* the other keys in the order they were declared
KeyOrder(entries) ==
  LET F[n \in 0 .. MaxIndexName + 1] ==
        IF n > MaxIndexName THEN <<>>
        ELSE SelectSeq(entries, LAMBDA e : e.name = ToString(n)) \o F[n + 1]
  IN  F[0] \o SelectSeq(entries, LAMBDA e : ~IsIndexName(e.name))

challenges ==
  [sum |->
     [fn_name |-> "add",
      tests |-> <<
        Entry("correctness", <<
          Entry("basic", TestCase("2,3", Str("5"), Undefined, TRUE, Undefined)),
          Entry("zero", TestCase("0,5", Num(5), Num(2), FALSE, Undefined)) >>),
        Entry("edges", <<
          Entry("hid", TestCase("4,1", Str("5"), Undefined, FALSE, Undefined)) >>),
        Entry("empty", <<>>),
        Entry("performance", <<
          Entry("fast", TestCase("2,3", Str("5"), Undefined, TRUE, Num(2))) >>) >>],
   ord |->
     [fn_name |-> "add",
      tests |-> <<
        Entry("main", <<
          Entry("2", TestCase("0,5", Str("5"), Undefined, TRUE, Undefined)),
          Entry("1", TestCase("2,3", Num(6), Num(2), TRUE, Num(1))),
          Entry("x", TestCase("4,1", Num(5), Num(0), FALSE, Undefined)) >>) >>]]

\* the solution texts the user can have saved in ./challenge.js
Contents == {Code("add"), Code("sub"), Code("throw0"), Code("syntax")}

Keys == {"space", "return", "t", "x", "c", "a"}

\* ------------------------------------------------------------------------
\* State
\* ------------------------------------------------------------------------
VARIABLES
  cid,          \* this.cid
  pc,           \* where Challenge.run is: init, awaitKey, awaitFile,
                \* testing, exited, rejected
  exitCode,     \* argument of process.exit, -1 while the process runs
  startTime,    \* this.startTime, -1 before run() set it
  instance,     \* CharReader.instance exists
  promises,     \* CharReader.promises: the pending reads, oldest first
  kbuf,         \* keys typed and not yet emitted as keypress events
  nkeys,        \* number of keys typed so far
  all,          \* the parameter of the current call of test()
  submitting,   \* the current test() was called from submit()
  content,      \* the solution text read by the current test()
  results,      \* the local `results` of the current test()
  fails,        \* the local `fails` of the current test()
  si,           \* position of the suite loop
  ti,           \* position of the test loop, 0 outside a suite
  testResults,  \* this.testResults
  vmCalls,      \* the vm contexts created by the current test(), in order
  reports,      \* every report assigned to this.testResults, with its text
  unit,         \* one direct call of runTest (pure-function checks)
  keylog,       \* the reads enqueued and the keypress events emitted so far
  hostBenchmark,\* what user code wrote on the Benchmark object of the host
  validation    \* the locals of one call of validateChallengeById

vars == <<cid, pc, exitCode, startTime, instance, promises, kbuf, nkeys, all,
          submitting, content, results, fails, si, ti, testResults, vmCalls,
          reports, unit, keylog, hostBenchmark, validation>>

\* the variables of the direct calls, which a session leaves alone
harnessVars == <<unit, validation>>

EmptyObj == <<>>
NoReport == [none |-> TRUE]
NoUnit == [on |-> FALSE]
NoContent == [kind |-> "none"]
NoValidation == [on |-> FALSE]

\* the Benchmark function object as required by the process: user code has
\* written nothing on it
FreshHost == [seen |-> FALSE]
StartTimes == {1}

data == challenges[cid]
SuiteKeys == KeyOrder(data.tests)
TestKeys(suite) == KeyOrder(suite)

Init ==
  /\ cid \in DOMAIN challenges
  /\ pc = "init"
  /\ exitCode = -1
  /\ startTime = -1
  /\ instance = FALSE
  /\ promises = <<>>
  /\ kbuf = <<>>
  /\ nkeys = 0
  /\ all = FALSE
  /\ submitting = FALSE
  /\ content = NoContent
  /\ results = NoReport
  /\ fails = 0
  /\ si = 0
  /\ ti = 0
  /\ testResults = NoReport
  /\ vmCalls = <<>>
  /\ reports = <<>>
  /\ unit = NoUnit
  /\ keylog = <<>>
  /\ hostBenchmark = FreshHost
  /\ validation = NoValidation

testVars == <<all, submitting, content, results, fails, si, ti, testResults,
              vmCalls, reports>>

\* ------------------------------------------------------------------------
\* CharReader
\* ------------------------------------------------------------------------
\* entries of keylog: a read that was enqueued, and a keypress event with
\* the read it resolved (0 if it resolved none)
ReadEv(id) == [ev |-> "read", id |-> id]
KeyEv(k, id) == [ev |-> "key", key |-> k, id |-> id]

\* the reads are numbered in the order of their calls
NextReadId == 1 + Cardinality({i \in 1 .. Len(keylog) : keylog[i].ev = "read"})

\* lines 335-344: read() pushes a deferred promise
read(q, id) == Append(q, id)

\* line 321: promises.shift() takes the oldest pending read
Oldest(q) == Head(q)
Shift(q) == Tail(q)

\* readChar(): CharReader.get() creates the instance on first use, read()
\* pushes a deferred promise
readChar(q) == read(q, NextReadId)

\* the log after the keypress k resolved the oldest read
Consumed(k) == Append(keylog, KeyEv(k, Oldest(promises)))

\* the keypress events that resolved a read, in order
ConsumedKeys == SelectSeq(keylog, LAMBDA e : e.ev = "key" /\ e.id # 0)

\* line 55: the value the awaited read was resolved with
char == ConsumedKeys[Len(ConsumedKeys)].key

\* the user types a key; it waits in stdin until the event loop is idle (a
\* key typed anywhere in the synchronous part of test() waits like one typed
\* at its beginning, so only that point is modelled)
PressKey ==
  /\ \/ pc \in {"init", "awaitKey", "awaitFile", "reader"}
     \/ pc = "testing" /\ si = 1 /\ ti = 0
  /\ nkeys < MaxKeys
  /\ Len(kbuf) < MaxBuf
  /\ \E k \in Keys : kbuf' = Append(kbuf, k)
  /\ nkeys' = nkeys + 1
  /\ UNCHANGED <<cid, pc, exitCode, startTime, instance, promises, testVars,
                 harnessVars, keylog, hostBenchmark>>

\* the keypress listener is installed and stdin emits a keypress event:
\* the event loop is idle, or the key came in one chunk with the key that
\* was just emitted (readline emits the keys of a chunk in one loop, before
\* the continuation of run() gets to run)
CanEmit ==
  /\ instance
  /\ kbuf # <<>>
  /\ pc \in {"awaitKey", "awaitFile", "resolved", "reader"}

\* variant: the length guard of line 320 is missing, and resolve is called
\* on undefined inside the listener
KeypressDroppedCrashes ==
  /\ CanEmit
  /\ promises = <<>>
  /\ kbuf' = Tail(kbuf)
  /\ keylog' = Append(keylog, KeyEv(Head(kbuf), 0))
  /\ pc' = "rejected"
  /\ UNCHANGED <<cid, exitCode, startTime, instance, promises, nkeys,
                 testVars, harnessVars, hostBenchmark>>

\* lines 319-323, no read pending: the keypress is dropped
KeypressDropped ==
  /\ CanEmit
  /\ promises = <<>>
  /\ kbuf' = Tail(kbuf)
  /\ keylog' = Append(keylog, KeyEv(Head(kbuf), 0))
  /\ UNCHANGED <<cid, pc, exitCode, startTime, instance, promises, nkeys,
                 testVars, harnessVars, hostBenchmark>>

\* variant: the listener takes the newest pending read
KeypressResolvesNewest ==
  /\ CanEmit
  /\ promises # <<>>
  /\ kbuf' = Tail(kbuf)
  /\ promises' = SubSeq(promises, 1, Len(promises) - 1)
  /\ keylog' = Append(keylog, KeyEv(Head(kbuf), promises[Len(promises)]))
  /\ pc' = IF pc = "awaitKey" THEN "resolved" ELSE pc
  /\ UNCHANGED <<cid, exitCode, startTime, instance, nkeys, testVars,
                 harnessVars, hostBenchmark>>

\* lines 319-323, a read is pending: the oldest one is resolved with the
\* key's name; the continuation of its reader is queued
KeypressResolves ==
  /\ CanEmit
  /\ promises # <<>>
  /\ kbuf' = Tail(kbuf)
  /\ promises' = Shift(promises)
  /\ keylog' = Consumed(Head(kbuf))
  /\ pc' = IF pc = "awaitKey" THEN "resolved" ELSE pc
  /\ UNCHANGED <<cid, exitCode, startTime, instance, nkeys, testVars,
                 harnessVars, hostBenchmark>>

\* line 55-57: Challenge.run continues with the char k
Resolved(k) == pc = "resolved" /\ char = k

\* ------------------------------------------------------------------------
\* Challenge.run
\* ------------------------------------------------------------------------
\* lines 31-55: the template is written, the start time taken, and the loop
\* awaits its first char
Start ==
  /\ pc = "init"
  /\ \E now \in StartTimes : startTime' = now
  /\ instance' = TRUE
  /\ promises' = readChar(promises)
  /\ keylog' = Append(keylog, ReadEv(NextReadId))
  /\ pc' = "awaitKey"
  /\ UNCHANGED <<cid, exitCode, kbuf, nkeys, testVars, harnessVars,
                 hostBenchmark>>

\* line 32: fs.writeFile rejects, and so does run()
WriteFileFails ==
  /\ pc = "init"
  /\ pc' = "rejected"
  /\ UNCHANGED <<cid, exitCode, startTime, instance, promises, kbuf, nkeys,
                 testVars, harnessVars, keylog, hostBenchmark>>

\* variant: test() is called without await, and the loop reads on
KeySpaceNoAwait ==
  /\ Resolved("space")
  /\ all' = FALSE
  /\ submitting' = FALSE
  /\ pc' = "awaitFile"
  /\ promises' = readChar(promises)
  /\ keylog' = Append(keylog, ReadEv(NextReadId))
  /\ UNCHANGED <<cid, exitCode, startTime, instance, kbuf, nkeys,
                 content, results, fails, si, ti, testResults, vmCalls,
                 reports, harnessVars, hostBenchmark>>

\* lines 58-63 and 86-87: space calls test(), which awaits the file read
KeySpace ==
  /\ Resolved("space")
  /\ all' = FALSE
  /\ submitting' = FALSE
  /\ pc' = "awaitFile"
  /\ UNCHANGED <<cid, exitCode, startTime, instance, promises, kbuf, nkeys,
                 content, results, fails, si, ti, testResults, vmCalls,
                 reports, harnessVars, keylog, hostBenchmark>>

\* lines 64-66, 159-167 and 86-87: return calls submit(), which calls
\* test(true), which awaits the file read
KeyReturn ==
  /\ Resolved("return")
  /\ all' = TRUE
  /\ submitting' = TRUE
  /\ pc' = "awaitFile"
  /\ UNCHANGED <<cid, exitCode, startTime, instance, promises, kbuf, nkeys,
                 content, results, fails, si, ti, testResults, vmCalls,
                 reports, harnessVars, keylog, hostBenchmark>>

\* variant: the break of line 72 is missing and t falls into the case of x
KeyTFallsThrough ==
  /\ Resolved("t")
  /\ pc' = "exited"
  /\ exitCode' = 0
  /\ UNCHANGED <<cid, startTime, instance, promises, kbuf, nkeys, testVars,
                 harnessVars, keylog, hostBenchmark>>

\* lines 68-72 and 53-55: t prints the elapsed time and the loop reads again
KeyT ==
  /\ Resolved("t")
  /\ promises' = readChar(promises)
  /\ keylog' = Append(keylog, ReadEv(NextReadId))
  /\ pc' = "awaitKey"
  /\ UNCHANGED <<cid, exitCode, startTime, instance, kbuf, nkeys, testVars,
                 harnessVars, hostBenchmark>>

\* lines 73-77: x and c exit the process
KeyExit ==
  /\ \E k \in {"x", "c"} : Resolved(k)
  /\ pc' = "exited"
  /\ exitCode' = 0
  /\ UNCHANGED <<cid, startTime, instance, promises, kbuf, nkeys, testVars,
                 harnessVars, keylog, hostBenchmark>>

\* lines 78-81 and 53-55: any other char prints the commands and the loop
\* reads again
KeyOther ==
  /\ \E k \in Keys \ {"space", "return", "t", "x", "c"} : Resolved(k)
  /\ promises' = readChar(promises)
  /\ keylog' = Append(keylog, ReadEv(NextReadId))
  /\ pc' = "awaitKey"
  /\ UNCHANGED <<cid, exitCode, startTime, instance, kbuf, nkeys, testVars,
                 harnessVars, hostBenchmark>>

\* ------------------------------------------------------------------------
\* Challenge.test
\* ------------------------------------------------------------------------
ctrlVars == <<cid, exitCode, startTime, instance, promises, kbuf, nkeys,
              keylog, harnessVars>>

\* lines 87-94: the file is read and the report initialised
ReadFile ==
  /\ pc = "awaitFile"
  /\ \E c \in Contents : content' = c
  /\ results' = [all |-> all, pass |-> TRUE, suites |-> EmptyObj]
  /\ fails' = 0
  /\ si' = 1
  /\ ti' = 0
  /\ vmCalls' = <<>>
  /\ pc' = "testing"
  /\ UNCHANGED <<ctrlVars, all, submitting, testResults, reports,
                 hostBenchmark>>

\* line 87: fs.readFile rejects; nothing catches it in test(), submit() or
\* run(), so run()'s promise rejects and the loop is over
ReadFileFails ==
  /\ pc = "awaitFile"
  /\ pc' = "rejected"
  /\ UNCHANGED <<ctrlVars, testVars, hostBenchmark>>

InSuiteLoop == pc = "testing" /\ si >= 1 /\ si <= Len(SuiteKeys)

\* variant: the check for an empty suite is missing
SuiteNeverSkipped(suite) == FALSE

\* line 99: the suite has no test case and is skipped
SuiteSkipped(suite) == Len(suite) = 0

\* lines 96-101: a skipped suite
SkipSuite ==
  /\ InSuiteLoop
  /\ ti = 0
  /\ SuiteSkipped(SuiteKeys[si].value)
  /\ si' = si + 1
  /\ UNCHANGED <<ctrlVars, pc, all, submitting, content, results, fails, ti,
                 testResults, vmCalls, reports, hostBenchmark>>

\* lines 96-109: the suite gets its entry in the report and its test loop
\* begins (and ends at once if there is nothing to iterate)
EnterSuite ==
  /\ InSuiteLoop
  /\ ti = 0
  /\ ~SuiteSkipped(SuiteKeys[si].value)
  /\ results' = [results EXCEPT !.suites =
                   (SuiteKeys[si].name :> [pass |-> TRUE, tests |-> EmptyObj])
                   @@ @]
  /\ IF Len(SuiteKeys[si].value) = 0
     THEN si' = si + 1 /\ ti' = 0
     ELSE si' = si /\ ti' = 1
  /\ UNCHANGED <<ctrlVars, pc, all, submitting, content, fails,
                 testResults, vmCalls, reports, hostBenchmark>>

InTestLoop == InSuiteLoop /\ ti >= 1 /\ ti <= Len(TestKeys(SuiteKeys[si].value))

curSuite == SuiteKeys[si]
curTest == TestKeys(curSuite.value)[ti]

\* the loops move on: the next test case, or the next suite after the last
Advance ==
  IF ti = Len(TestKeys(curSuite.value))
  THEN si' = si + 1 /\ ti' = 0
  ELSE si' = si /\ ti' = ti + 1

\* variant: a full run selects the hidden test cases only
SelectedExclusive(a, test) == a # test.visible

\* line 112: the test case is selected for this run
Selected(a, test) == a \/ test.visible

\* lines 109-112: a test case that is not selected
SkipTest ==
  /\ InTestLoop
  /\ ~Selected(all, curTest.value)
  /\ Advance
  /\ UNCHANGED <<ctrlVars, pc, all, submitting, content, results, fails,
                 testResults, vmCalls, reports, hostBenchmark>>

\* variant: a failure is recorded in the report only, not in its suite
RecordReportOnly(res, suiteName, testName, testResult) ==
  LET s == res.suites[suiteName]
      withTest == [s EXCEPT !.tests = (testName :> testResult) @@ @]
  IN [res EXCEPT !.suites = (suiteName :> withTest) @@ @,
                 !.pass = IF testResult.pass THEN @ ELSE FALSE]

\* lines 117 and 124-127: the result is stored and a failure recorded
Record(res, suiteName, testName, testResult) ==
  LET s == res.suites[suiteName]
      withTest == [s EXCEPT !.tests = (testName :> testResult) @@ @]
      suite == IF testResult.pass THEN withTest
               ELSE [withTest EXCEPT !.pass = FALSE]
  IN [res EXCEPT !.suites = (suiteName :> suite) @@ @,
                 !.pass = IF testResult.pass THEN @ ELSE FALSE]

\* lines 109-144: a selected test case is run and recorded
RunTestCase ==
  /\ InTestLoop
  /\ Selected(all, curTest.value)
  /\ \E bench \in BenchChoices(data.fn_name, curTest.value, content,
                                 hostBenchmark) :
       LET tr == runTestTrace(data.fn_name, curTest.value, content, bench)
       IN /\ results' = Record(results, curSuite.name, curTest.name, tr.result)
          /\ hostBenchmark' = HostAfter(hostBenchmark, content, tr)
          /\ fails' = IF tr.result.pass THEN fails ELSE fails + 1
          /\ vmCalls' = vmCalls \o
               [i \in 1 .. Len(tr.calls) |->
                  [kind |-> tr.calls[i].kind, out |-> tr.calls[i].out,
                   suite |-> curSuite.name, test |-> curTest.name]]
  /\ Advance
  /\ UNCHANGED <<ctrlVars, pc, all, submitting, content, testResults,
                 reports>>

LoopsDone == pc = "testing" /\ si > Len(SuiteKeys)

Report == [all |-> all, content |-> content, results |-> results,
           calls |-> vmCalls]

\* test() returns: its parameter and locals are gone
TestReturns ==
  /\ all' = FALSE
  /\ submitting' = FALSE
  /\ content' = NoContent
  /\ results' = NoReport
  /\ fails' = 0
  /\ si' = 0
  /\ ti' = 0
  /\ vmCalls' = <<>>

\* lines 148-156 and 63, 53-55: the visible-only run ends, the report is
\* kept, and the loop reads the next char
FinishTest ==
  /\ LoopsDone
  /\ ~submitting
  /\ testResults' = results
  /\ reports' = Append(reports, Report)
  /\ promises' = readChar(promises)
  /\ keylog' = Append(keylog, ReadEv(NextReadId))
  /\ pc' = "awaitKey"
  /\ TestReturns
  /\ UNCHANGED <<cid, exitCode, startTime, instance, kbuf, nkeys, harnessVars,
                 hostBenchmark>>

\* lines 148-156, 167-170 and 67: the submission run ends and the process
\* exits
FinishSubmit ==
  /\ LoopsDone
  /\ submitting
  /\ testResults' = results
  /\ reports' = Append(reports, Report)
  /\ pc' = "exited"
  /\ exitCode' = 0
  /\ TestReturns
  /\ UNCHANGED <<cid, startTime, instance, promises, kbuf, nkeys,
                 harnessVars, keylog, hostBenchmark>>

Next ==
  \/ Start
  \/ WriteFileFails
  \/ PressKey
  \/ KeypressDropped
  \/ KeypressResolves
  \/ KeySpace
  \/ KeyReturn
  \/ KeyT
  \/ KeyExit
  \/ KeyOther
  \/ ReadFile
  \/ ReadFileFails
  \/ SkipSuite
  \/ EnterSuite
  \/ SkipTest
  \/ RunTestCase
  \/ FinishTest
  \/ FinishSubmit

Spec == Init /\ [][Next]_vars

TypeOK ==
  /\ pc \in {"init", "awaitKey", "resolved", "awaitFile", "testing", "exited",
            "rejected", "unit", "reader", "isolation", "validate"}
  /\ Len(promises) <= 1

\* ------------------------------------------------------------------------
\* runTest called directly on one test case
\* ------------------------------------------------------------------------
UnitNumbers == {Num(n) : n \in (5 - Radius) .. (5 + Radius)}

\* what the solution's function returns, or a text that does not parse
UnitContents ==
  {Const(v) : v \in UnitNumbers \cup {NaN, PosInf, NegInf, Str("5"),
                                      Bool(TRUE), Null, Undefined}}
  \cup {Code("syntax")}

UnitTests ==
  {TestCase("2,3", res, delta, TRUE, max) :
     res \in {Num(5), Str("5"), Str("\"5\""), Bool(TRUE), Undefined},
     delta \in {Undefined, Num(-2), Num(0), Num(1), Num(2)},
     max \in {Undefined, Num(0), Num(1)}}

InitRunTest ==
  /\ cid \in {"sum"}
  /\ pc = "unit"
  /\ exitCode = -1
  /\ startTime = -1
  /\ instance = FALSE
  /\ promises = <<>>
  /\ kbuf = <<>>
  /\ nkeys = 0
  /\ all = FALSE
  /\ submitting = FALSE
  /\ content = NoContent
  /\ results = NoReport
  /\ fails = 0
  /\ si = 0
  /\ ti = 0
  /\ testResults = NoReport
  /\ vmCalls = <<>>
  /\ keylog = <<>>
  /\ hostBenchmark = FreshHost
  /\ validation = NoValidation
  /\ reports = <<>>
  /\ unit \in {[on |-> TRUE, done |-> FALSE, test |-> t, content |-> c] :
                 t \in UnitTests, c \in UnitContents}

\* runTest(fnName, test, content), lines 172-211
CallRunTest ==
  /\ pc = "unit"
  /\ unit.on
  /\ ~unit.done
  /\ \E bench \in BenchChoices("add", unit.test, unit.content,
                                 hostBenchmark) :
       LET tr == runTestTrace("add", unit.test, unit.content, bench)
       IN /\ unit' = [on |-> TRUE, done |-> TRUE, test |-> unit.test,
                      content |-> unit.content, trace |-> tr]
          /\ hostBenchmark' = HostAfter(hostBenchmark, unit.content, tr)
  /\ UNCHANGED <<cid, pc, exitCode, startTime, instance, promises, kbuf,
                 nkeys, testVars, keylog, validation>>

NextRunTest == CallRunTest

SpecRunTest == InitRunTest /\ [][NextRunTest]_vars

\* ------------------------------------------------------------------------
\* runTest called several times in one process with one solution text
\* ------------------------------------------------------------------------
\* solution texts; "mark" is
\*   function add(a, b) { return a + b }
\*   if (typeof Benchmark !== 'undefined') {
\*     if (Benchmark.seen) throw new Error('seen'); Benchmark.seen = true }
IsoContents == {Code("add"), Code("sub"), Code("throw0"), Code("mark")}

IsoTests ==
  {TestCase("2,3", Num(5), Undefined, TRUE, Num(1)),
   TestCase("4,1", Num(5), Undefined, TRUE, Num(2)),
   TestCase("0,5", Num(5), Num(2), TRUE, Undefined),
   TestCase("2,3", Num(6), Undefined, TRUE, Num(1))}

InitIsolation ==
  /\ cid \in {"sum"}
  /\ pc = "isolation"
  /\ exitCode = -1
  /\ startTime = -1
  /\ instance = FALSE
  /\ promises = <<>>
  /\ kbuf = <<>>
  /\ nkeys = 0
  /\ all = FALSE
  /\ submitting = FALSE
  /\ content = NoContent
  /\ results = NoReport
  /\ fails = 0
  /\ si = 0
  /\ ti = 0
  /\ testResults = NoReport
  /\ vmCalls = <<>>
  /\ reports = <<>>
  /\ keylog = <<>>
  /\ hostBenchmark = FreshHost
  /\ validation = NoValidation
  /\ unit \in {[on |-> TRUE, done |-> FALSE, content |-> c, n |-> 0,
                 log |-> <<>>] : c \in IsoContents}

\* runTest(fnName, test, content), lines 172-211, on any test case, after
\* the calls made before
CallRunTestAgain ==
  /\ pc = "isolation"
  /\ unit.n < MaxCalls
  /\ \E test \in IsoTests :
       \E bench \in BenchChoices("add", test, unit.content, hostBenchmark) :
         LET tr == runTestTrace("add", test, unit.content, bench)
         IN /\ unit' = [on |-> TRUE, done |-> TRUE, test |-> test,
                        content |-> unit.content, trace |-> tr,
                        n |-> unit.n + 1,
                        log |-> Append(unit.log, tr.result)]
            /\ hostBenchmark' = HostAfter(hostBenchmark, unit.content, tr)
  /\ UNCHANGED <<cid, pc, exitCode, startTime, instance, promises, kbuf,
                 nkeys, testVars, keylog, validation>>

NextIsolation == CallRunTestAgain

SpecIsolation == InitIsolation /\ [][NextIsolation]_vars

\* ------------------------------------------------------------------------
\* validateChallengeById
\* ------------------------------------------------------------------------
\* obj.key is not undefined
Has(obj, key) == key \in DOMAIN obj

\* a property whose value is null (a YAML key without a value)
NullEntry(name) == [name |-> name]
IsNull(entry) == ~Has(entry, "value")

\* a test case without args
WithoutArgs(test) == [k \in DOMAIN test \ {"args"} |-> test[k]]

\* the `tests` objects of the challenges that are validated
ValidatedTests ==
  { << Entry("correctness", <<
         Entry("basic", TestCase("2,3", Str("5"), Undefined, TRUE, Undefined)) >>),
       Entry("edges", <<
         Entry("num", TestCase("0,5", Num(5), Undefined, TRUE, Undefined)) >>),
       Entry("performance", <<
         Entry("fast", TestCase("2,3", Num(5), Num(0), TRUE, Num(1))),
         Entry("any", TestCase("4,1", Str("5"), Undefined, TRUE, Undefined)) >>) >>,
    << Entry("correctness", <<
         Entry("nores", TestCase("2,3", Undefined, Undefined, TRUE, Undefined)),
         Entry("basic", TestCase("4,1", Str("5"), Undefined, TRUE, Undefined)) >>) >>,
    << NullEntry("correctness"),
       Entry("edges", <<
         Entry("basic", TestCase("2,3", Str("5"), Undefined, TRUE, Undefined)) >>) >>,
    << Entry("correctness", <<
         Entry("basic", TestCase("2,3", Str("5"), Undefined, TRUE, Undefined)),
         NullEntry("hole"),
         Entry("late", TestCase("4,1", Str("5"), Undefined, TRUE, Undefined)) >>) >>,
    << Entry("correctness", <<
         Entry("noargs",
               WithoutArgs(TestCase("", Str("null"), Undefined, TRUE,
                                    Undefined))) >>),
       Entry("empty", <<>>) >> }

\* the sample solutions of the challenges that are validated
SampleSolutions == {Code("add"), Code("sub"), Code("syntax")}

\* the records challenges[cid] that are validated: each field is there or
\* not
ValidatedChallenges ==
  LET full ==
        {[fn_name |-> "add", template |-> Code("nofn"), sample_solution |-> c,
          recommended_time_ms |-> 1, tests |-> t] :
           c \in SampleSolutions, t \in ValidatedTests}
      drops == {{}, {"fn_name"}, {"template"}, {"sample_solution"},
                {"recommended_time_ms"}, {"tests"},
                {"sample_solution", "tests"},
                {"sample_solution", "recommended_time_ms"}}
  IN UNION {{[k \in DOMAIN ch \ drop |-> ch[k]] : drop \in drops} :
              ch \in full}

\* lines 221-222: the counters, with the lines printed
NewValidation(known, ch) ==
  [on |-> TRUE, known |-> known, ch |-> ch, phase |-> "fields",
   errors |-> 0, warnings |-> 0, msgs |-> <<>>, i |-> 1, log |-> <<>>]

InitValidate ==
  /\ pc = "validate"
  /\ exitCode = -1
  /\ startTime = -1
  /\ instance = FALSE
  /\ promises = <<>>
  /\ kbuf = <<>>
  /\ nkeys = 0
  /\ all = FALSE
  /\ submitting = FALSE
  /\ content = NoContent
  /\ results = NoReport
  /\ fails = 0
  /\ si = 0
  /\ ti = 0
  /\ testResults = NoReport
  /\ vmCalls = <<>>
  /\ reports = <<>>
  /\ unit = NoUnit
  /\ keylog = <<>>
  /\ hostBenchmark = FreshHost
  /\ \/ /\ cid = "sum"
        /\ validation \in {NewValidation(TRUE, ch) : ch \in ValidatedChallenges}
     \/ /\ cid = "nope"
        /\ validation = NewValidation(FALSE, EmptyObj)

Msg(text) == [text |-> text]
TestMsg(text, suite, test) == [text |-> text, suite |-> suite, test |-> test]

\* variant: a warning is counted as an error
warnAsError(v, m) ==
  [v EXCEPT !.errors = @ + 1,
            !.msgs = Append(@, [level |-> "warn", msg |-> m])]

\* lines 232-239: warn(str)
warn(v, m) ==
  [v EXCEPT !.warnings = @ + 1,
            !.msgs = Append(@, [level |-> "warn", msg |-> m])]

\* lines 224-231: error(str)
error(v, m) ==
  [v EXCEPT !.errors = @ + 1,
            !.msgs = Append(@, [level |-> "error", msg |-> m])]

\* an exception is thrown inside the try block of lines 241-298
Thrown(v, e) == [v EXCEPT !.phase = "caught"] @@ [e |-> e]

\* for (const suiteName in challenge.tests) for (const testName in suite):
\* the test cases in the order they are visited; a null suite has none
Visits(tests) ==
  LET suites == KeyOrder(tests)
      F[n \in 0 .. Len(suites)] ==
        IF n = 0 THEN <<>>
        ELSE F[n - 1] \o
             (IF IsNull(suites[n]) THEN <<>>
              ELSE LET ts == KeyOrder(suites[n].value)
                   IN [j \in 1 .. Len(ts) |->
                         [suite |-> suites[n].name, entry |-> ts[j]]])
  IN F[Len(suites)]

\* the loops of lines 274-297 go on at visit i, or are over
Continue(v, i) ==
  [v EXCEPT !.i = i,
            !.phase = IF i > Len(Visits(v.ch.tests)) THEN "summary"
                      ELSE "tests"]

\* lines 244-262: the checks of the fields
FieldChecks(v) ==
  LET v1 == IF ~Has(v.ch, "fn_name") THEN error(v, Msg("no fn_name"))
            ELSE v
      v2 == IF ~Has(v.ch, "template") THEN error(v1, Msg("no template"))
            ELSE v1
      v3 == IF ~Has(v.ch, "sample_solution")
            THEN warn(v2, Msg("no sample_solution")) ELSE v2
      v4 == IF ~Has(v.ch, "recommended_time_ms")
            THEN warn(v3, Msg("no recommended_time_ms")) ELSE v3
  IN IF ~Has(v.ch, "tests") THEN error(v4, Msg("no tests")) ELSE v4

\* !challenge.tests[name]: the suite is not there, or it is null
NoSuite(tests, name) ==
  \A n \in 1 .. Len(tests) : tests[n].name = name => IsNull(tests[n])

\* lines 264-272: the warnings for the three suites
SuiteChecks(v) ==
  LET v1 == IF NoSuite(v.ch.tests, "correctness")
            THEN warn(v, Msg("no suite named correctness")) ELSE v
      v2 == IF NoSuite(v.ch.tests, "edges")
            THEN warn(v1, Msg("no suite named edges")) ELSE v1
  IN IF NoSuite(v.ch.tests, "performance")
     THEN warn(v2, Msg("no suite named performance")) ELSE v2

\* lines 279-290: the checks of one test case
TestChecks(v, sn, tn, test) ==
  LET v1 == IF ~Has(test, "args") THEN warn(v, TestMsg("lacks 'args'", sn, tn))
            ELSE v
      v2 == IF test.res = Undefined
            THEN error(v1, TestMsg("lacks 'res'", sn, tn)) ELSE v1
      v3 == IF sn = "performance" /\ ~Truthy(test.max_time_s)
            THEN warn(v2, TestMsg("lacks a 'max_time_s'", sn, tn)) ELSE v2
  IN IF TypeofNumber(test.res) /\ test.delta = Undefined
     THEN warn(v3, TestMsg("has a numeric 'res' but lacks a delta", sn, tn))
     ELSE v3

\* lines 292-295: the sample solution is run on the test case
SampleCheck(v, sn, tn, test, result) ==
  LET v1 == [v EXCEPT !.log = Append(@, [suite |-> sn, test |-> tn,
                                         case |-> test, result |-> result])]
  IN IF ~result.pass THEN error(v1, TestMsg("failed", sn, tn)) ELSE v1

\* `${challenge.fn_name}` and `${challenge.sample_solution}` as runTest
\* puts them into the text it evaluates
FnText(ch) == IF Has(ch, "fn_name") THEN ch.fn_name ELSE UndefinedText
SampleText(ch) ==
  IF Has(ch, "sample_solution") THEN ch.sample_solution
  ELSE Code(UndefinedText)

\* lines 242-262: challenges[cid] is looked up and its fields are checked;
\* reading a field of undefined throws
ValidateFields ==
  /\ pc = "validate"
  /\ validation.phase = "fields"
  /\ validation' =
       IF ~validation.known THEN Thrown(validation, "TypeError")
       ELSE [FieldChecks(validation) EXCEPT !.phase = "suites"]
  /\ UNCHANGED <<cid, pc, exitCode, startTime, instance, promises, kbuf,
                 nkeys, testVars, keylog, hostBenchmark, unit>>

\* lines 264-274: the three suites are looked up in challenge.tests;
\* reading a property of undefined throws
ValidateSuiteNames ==
  /\ pc = "validate"
  /\ validation.phase = "suites"
  /\ validation' =
       IF ~Has(validation.ch, "tests") THEN Thrown(validation, "TypeError")
       ELSE Continue(SuiteChecks(validation), 1)
  /\ UNCHANGED <<cid, pc, exitCode, startTime, instance, promises, kbuf,
                 nkeys, testVars, keylog, hostBenchmark, unit>>

\* lines 276-296: one test case is checked and run; reading a field of a
\* null test case throws
ValidateTest ==
  /\ pc = "validate"
  /\ validation.phase = "tests"
  /\ LET visit == Visits(validation.ch.tests)[validation.i]
         sn == visit.suite
         tn == visit.entry.name
     IN IF IsNull(visit.entry)
        THEN /\ validation' = Thrown(validation, "TypeError")
             /\ UNCHANGED hostBenchmark
        ELSE LET test == visit.entry.value
                 text == SampleText(validation.ch)
                 fn == FnText(validation.ch)
             IN \E bench \in BenchChoices(fn, test, text, hostBenchmark) :
                  LET tr == runTestTrace(fn, test, text, bench)
                  IN /\ validation' =
                          Continue(SampleCheck(
                                     TestChecks(validation, sn, tn, test),
                                     sn, tn, test, tr.result),
                                   validation.i + 1)
                     /\ hostBenchmark' = HostAfter(hostBenchmark, text, tr)
  /\ UNCHANGED <<cid, pc, exitCode, startTime, instance, promises, kbuf,
                 nkeys, testVars, keylog, unit>>

\* variant: the catch block throws the exception again
Rethrown(v) == [v EXCEPT !.phase = "threw"]

\* lines 298-300: the catch block reports the exception as one error
CaughtReported(v) ==
  [error(v, [text |-> "problem occured while trying to verify", cid |-> cid,
             e |-> v.e])
     EXCEPT !.phase = "summary"]

ValidateCaught ==
  /\ pc = "validate"
  /\ validation.phase = "caught"
  /\ validation' = CaughtReported(validation)
  /\ UNCHANGED <<cid, pc, exitCode, startTime, instance, promises, kbuf,
                 nkeys, testVars, keylog, hostBenchmark, unit>>

\* lines 302-310: the summary line; error() and warn() count it as well
Summary(v) ==
  IF v.errors > 0
  THEN error(v, [text |-> "failed with errors", n |-> v.errors])
  ELSE IF v.warnings > 0
  THEN warn(v, [text |-> "found warnings", n |-> v.warnings])
  ELSE [v EXCEPT !.msgs = Append(@, [level |-> "ok", msg |-> Msg("ok")])]

ValidateSummary ==
  /\ pc = "validate"
  /\ validation.phase = "summary"
  /\ validation' = [Summary(validation) EXCEPT !.phase = "done"]
  /\ UNCHANGED <<cid, pc, exitCode, startTime, instance, promises, kbuf,
                 nkeys, testVars, keylog, hostBenchmark, unit>>

NextValidate ==
  \/ ValidateFields
  \/ ValidateSuiteNames
  \/ ValidateTest
  \/ ValidateCaught
  \/ ValidateSummary

SpecValidate == InitValidate /\ [][NextValidate]_vars

\* ------------------------------------------------------------------------
\* the CharReader with any number of callers
\* ------------------------------------------------------------------------
InitReader ==
  /\ cid \in {"sum"}
  /\ pc = "reader"
  /\ exitCode = -1
  /\ startTime = -1
  /\ instance = FALSE
  /\ promises = <<>>
  /\ kbuf = <<>>
  /\ nkeys = 0
  /\ all = FALSE
  /\ submitting = FALSE
  /\ content = NoContent
  /\ results = NoReport
  /\ fails = 0
  /\ si = 0
  /\ ti = 0
  /\ testResults = NoReport
  /\ vmCalls = <<>>
  /\ reports = <<>>
  /\ unit = NoUnit
  /\ keylog = <<>>
  /\ hostBenchmark = FreshHost
  /\ validation = NoValidation

\* lines 346-348, 325-344: some caller calls readChar() and does not wait
\* for other reads; the first call creates the instance and its listener
CallReadChar ==
  /\ pc = "reader"
  /\ NextReadId <= MaxReads
  /\ instance' = TRUE
  /\ promises' = readChar(promises)
  /\ keylog' = Append(keylog, ReadEv(NextReadId))
  /\ UNCHANGED <<cid, pc, exitCode, startTime, kbuf, nkeys, testVars,
                 harnessVars, hostBenchmark>>

NextReader ==
  \/ CallReadChar
  \/ PressKey
  \/ KeypressResolves
  \/ KeypressDropped

SpecReader == InitReader /\ [][NextReader]_vars

\* ------------------------------------------------------------------------
\* Properties of runTest
\* ------------------------------------------------------------------------
UnitDone == unit.on /\ unit.done

\* the evaluation of the direct call returned a value
UnitReturned == UnitDone /\ unit.trace.calls[1].out.kind = "return"

UnitActual == unit.trace.calls[1].out.value

\* the correctness comparison of the direct call passed: the result says
\* so, or the benchmark step, which only a passed comparison reaches, ran
UnitComparisonPassed ==
  \/ unit.trace.result.pass
  \/ Len(unit.trace.calls) = 2

\* res - d/2 <= actual <= res + d/2 for a numeric actual (NaN and the
\* infinities lie outside every finite interval)
InTolerance(actual, res, d) ==
  /\ actual.t = "number"
  /\ 2 * res.v - d.v <= 2 * actual.v
  /\ 2 * actual.v <= 2 * res.v + d.v

\* the direct call has a numeric res, a numeric delta and a numeric actual
NumericCase ==
  /\ UnitReturned
  /\ unit.test.res.t = "number"
  /\ unit.test.delta.t = "number"
  /\ TypeofNumber(UnitActual)

\* C1 as stated: with a numeric res, a delta d (0 and negative included) and
\* a numeric actual, the comparison passes iff res - d/2 <= actual <= res + d/2
C1_Original ==
  NumericCase =>
    (UnitComparisonPassed
       <=> InTolerance(UnitActual, unit.test.res, unit.test.delta))

\* C1 amended: with a numeric res, a delta d >= 0 and a numeric actual, the
\* comparison passes iff res - d/2 <= actual <= res + d/2
C1_ToleranceIff ==
  (NumericCase /\ unit.test.delta.v >= 0) =>
    (UnitComparisonPassed
       <=> InTolerance(UnitActual, unit.test.res, unit.test.delta))

\* C1 witness: actual 6 passes against res 5 with delta 2, at the inclusive
\* upper end, although "6" is not the serialized res
C1_Witness ==
  /\ NumericCase
  /\ unit.test.res = Num(5)
  /\ unit.test.delta = Num(2)
  /\ UnitActual = Num(6)
  /\ JSONstringify(UnitActual) # Str("5")
  /\ UnitComparisonPassed

\* C2: when the serialized actual equals res, the comparison passes, for
\* every delta and every type of res
C2_SerializedEqualPasses ==
  (UnitReturned /\ JSONstringify(UnitActual) = unit.test.res)
    => UnitComparisonPassed

\* C2 witness: the string "5" serializes to the res "\"5\"" and passes under
\* a negative delta
C2_Witness ==
  /\ UnitReturned
  /\ UnitActual = Str("5")
  /\ JSONstringify(UnitActual) = unit.test.res
  /\ unit.test.delta = Num(-2)
  /\ UnitComparisonPassed

\* ------------------------------------------------------------------------
\* Properties of Challenge.test
\* ------------------------------------------------------------------------
\* the runs of test() that ended, and those together with the one going on
Finished == {reports[i] : i \in 1 .. Len(reports)}
Runs == Finished \cup (IF pc = "testing" THEN {Report} ELSE {})

\* the declared suite and test case of a name
DeclaredSuite(sn) ==
  data.tests[CHOOSE i \in 1 .. Len(data.tests) : data.tests[i].name = sn].value
DeclaredTest(sn, tn) ==
  LET suite == DeclaredSuite(sn)
  IN suite[CHOOSE j \in 1 .. Len(suite) : suite[j].name = tn].value

\* the entries of a report, as (suite name, test name) pairs
EntriesOf(res) ==
  UNION {{<<sn, tn>> : tn \in DOMAIN res.suites[sn].tests} :
           sn \in DOMAIN res.suites}

EntryOf(res, e) == res.suites[e[1]].tests[e[2]]

CallsOf(run, kind) ==
  {i \in 1 .. Len(run.calls) : run.calls[i].kind = kind}

\* the benchmark contexts of a run that belong to an entry
BenchCallsFor(run, e) ==
  {i \in CallsOf(run, "bench") :
     run.calls[i].suite = e[1] /\ run.calls[i].test = e[2]}

\* C3: a benchmark mean above max_time_s gives pass=false, validityPass=true
\* and the time; validityPass=true always comes with pass=false, and with
\* pass=false of the suite and of the report
C3_TooSlowFails ==
  \A run \in Runs :
    /\ \A i \in CallsOf(run, "bench") :
         LET c == run.calls[i]
             max == DeclaredTest(c.suite, c.test).max_time_s
             r == EntryOf(run.results, <<c.suite, c.test>>)
         IN (c.out.kind = "mean" /\ max.t = "number" /\ c.out.mean > max.v)
              => /\ DOMAIN r = {"pass", "res", "time", "validityPass"}
                 /\ r.pass = FALSE
                 /\ r.validityPass = TRUE
                 /\ r.time = c.out.mean
    /\ \A e \in EntriesOf(run.results) :
         LET r == EntryOf(run.results, e)
         IN ("validityPass" \in DOMAIN r /\ r.validityPass)
              => /\ r.pass = FALSE
                 /\ run.results.suites[e[1]].pass = FALSE
                 /\ run.results.pass = FALSE

\* C3 witness: a run ended with an entry that is correct but too slow
C3_Witness ==
  \E run \in Finished : \E e \in EntriesOf(run.results) :
    LET r == EntryOf(run.results, e)
    IN /\ "validityPass" \in DOMAIN r
       /\ r.time > DeclaredTest(e[1], e[2]).max_time_s.v

\* C4: a benchmark context is created only right after the evaluation of
\* the same test case returned a value that passed the comparison, and an
\* entry has a time only if its benchmark ran
C4_BenchAfterPass ==
  \A run \in Runs :
    /\ \A i \in CallsOf(run, "bench") :
         /\ i > 1
         /\ LET c == run.calls[i]
                p == run.calls[i - 1]
            IN /\ p.kind = "eval"
               /\ p.suite = c.suite
               /\ p.test = c.test
               /\ p.out.kind = "return"
               /\ ComparePass(p.out.value, DeclaredTest(c.suite, c.test))
    /\ \A e \in EntriesOf(run.results) :
         "time" \in DOMAIN EntryOf(run.results, e)
           => BenchCallsFor(run, e) # {}

\* C4 witness: a run ended in which a test case with max_time_s failed the
\* comparison and was not benchmarked
C4_Witness ==
  \E run \in Finished : \E e \in EntriesOf(run.results) :
    LET r == EntryOf(run.results, e)
    IN /\ Truthy(DeclaredTest(e[1], e[2]).max_time_s)
       /\ DOMAIN r = {"pass", "res"}
       /\ ~r.pass
       /\ BenchCallsFor(run, e) = {}

\* the test cases of a suite whose evaluation was started in a run
ExecutedIn(run, sn) ==
  {run.calls[i].test : i \in {j \in CallsOf(run, "eval") :
                                 run.calls[j].suite = sn}}

\* C5: after a run, each suite's pass is the AND of the pass of exactly the
\* test cases executed in it, and the report's pass is the AND of the
\* suites' pass
C5_PassIsConjunction ==
  \A run \in Finished :
    /\ \A sn \in DOMAIN run.results.suites :
         LET suite == run.results.suites[sn]
         IN /\ DOMAIN suite.tests = ExecutedIn(run, sn)
            /\ suite.pass = (\A tn \in DOMAIN suite.tests : suite.tests[tn].pass)
    /\ run.results.pass =
         (\A sn \in DOMAIN run.results.suites : run.results.suites[sn].pass)
    /\ testResults = reports[Len(reports)].results

\* C5 witness: a run ended with a passing and a failing suite
C5_Witness ==
  \E run \in Finished :
    /\ \E sn \in DOMAIN run.results.suites :
         /\ run.results.suites[sn].pass
         /\ DOMAIN run.results.suites[sn].tests # {}
    /\ \E sn \in DOMAIN run.results.suites : ~run.results.suites[sn].pass
    /\ ~run.results.pass

\* the names of the declared suites, and the declared test cases that a
\* run with parameter a selects
DeclaredSuiteNames == {data.tests[i].name : i \in 1 .. Len(data.tests)}
SelectedIn(sn, a) ==
  {DeclaredSuite(sn)[j].name :
     j \in {k \in 1 .. Len(DeclaredSuite(sn)) :
              a \/ DeclaredSuite(sn)[k].value.visible}}

\* C6 as stated: a suite in which a run executes no test case has no entry
\* in that run's report
C6_Original ==
  \A run \in Finished : \A sn \in DeclaredSuiteNames :
    SelectedIn(sn, run.all) = {} => sn \notin DOMAIN run.results.suites

\* C6 amended: exactly the suites that declare no test case are skipped; a
\* suite that declares test cases of which the run executes none has an
\* entry with pass = true and no tests
C6_EmptySuiteSkipped ==
  \A run \in Finished :
    /\ DOMAIN run.results.suites =
         {sn \in DeclaredSuiteNames : Len(DeclaredSuite(sn)) > 0}
    /\ \A sn \in DOMAIN run.results.suites :
         SelectedIn(sn, run.all) = {}
           => run.results.suites[sn] = [pass |-> TRUE, tests |-> EmptyObj]

\* C6 witness: a visible-only run ended; the suite without test cases has
\* no entry, the suite with hidden test cases only has an empty one
C6_Witness ==
  \E run \in Finished :
    /\ ~run.all
    /\ \E sn \in DeclaredSuiteNames :
         Len(DeclaredSuite(sn)) = 0 /\ sn \notin DOMAIN run.results.suites
    /\ \E sn \in DOMAIN run.results.suites :
         /\ SelectedIn(sn, FALSE) = {}
         /\ DOMAIN run.results.suites[sn].tests = {}

\* a visible-only run and a later full run that read the same solution text
SameTextPairs ==
  {p \in (1 .. Len(reports)) \X (1 .. Len(reports)) :
     /\ p[1] < p[2]
     /\ ~reports[p[1]].all
     /\ reports[p[2]].all
     /\ reports[p[1]].content = reports[p[2]].content}

\* the second report has every suite and every test of the first
Superset(first, second) ==
  /\ DOMAIN first.suites \subseteq DOMAIN second.suites
  /\ EntriesOf(first) \subseteq EntriesOf(second)

\* C7 as stated: the full run's report is a superset of the visible-only
\* run's, and every shared entry is identical
C7_Original ==
  \A p \in SameTextPairs :
    LET first == reports[p[1]].results
        second == reports[p[2]].results
    IN /\ Superset(first, second)
       /\ \A e \in EntriesOf(first) \cap EntriesOf(second) :
            EntryOf(first, e) = EntryOf(second, e)

\* C7 amended: the full run's report is a superset of the visible-only
\* run's, and every shared entry of a test case without max_time_s is
\* identical
C7_SupersetSameUnbenchmarked ==
  \A p \in SameTextPairs :
    LET first == reports[p[1]].results
        second == reports[p[2]].results
    IN /\ Superset(first, second)
       /\ \A e \in EntriesOf(first) \cap EntriesOf(second) :
            ~Truthy(DeclaredTest(e[1], e[2]).max_time_s)
              => EntryOf(first, e) = EntryOf(second, e)

\* C7 witness: a visible-only and a full run on the same text, the second
\* with more entries, sharing an entry of a test case without max_time_s
C7_Witness ==
  \E p \in SameTextPairs :
    LET first == reports[p[1]].results
        second == reports[p[2]].results
    IN /\ EntriesOf(second) \ EntriesOf(first) # {}
       /\ \E e \in EntriesOf(first) :
            ~Truthy(DeclaredTest(e[1], e[2]).max_time_s)

\* all declared test cases, suite by suite, in the order of the declaration
DeclaredTests ==
  LET F[i \in 0 .. Len(data.tests)] ==
        IF i = 0 THEN <<>>
        ELSE F[i - 1] \o
             [j \in 1 .. Len(data.tests[i].value) |->
                [suite |-> data.tests[i].name,
                 test |-> data.tests[i].value[j].name,
                 visible |-> data.tests[i].value[j].value.visible]]
  IN F[Len(data.tests)]

\* the test cases a run evaluated, in the order of their evaluation
Evaluated(run) ==
  LET evals == SelectSeq(run.calls, LAMBDA c : c.kind = "eval")
  IN [i \in 1 .. Len(evals) |->
        [suite |-> evals[i].suite, test |-> evals[i].test]]

\* the selected test cases in declared order
DeclaredSelected(a) ==
  LET sel == SelectSeq(DeclaredTests, LAMBDA d : a \/ d.visible)
  IN [i \in 1 .. Len(sel) |-> [suite |-> sel[i].suite, test |-> sel[i].test]]

\* C8: a run evaluates exactly the test cases with all or visible, each
\* once, in the declared order of suites and test cases, and those are the
\* entries of its report
C8_DeclaredOrder ==
  \A run \in Finished :
    /\ Evaluated(run) = DeclaredSelected(run.all)
    /\ EntriesOf(run.results) =
         {<<DeclaredSelected(run.all)[i].suite,
            DeclaredSelected(run.all)[i].test>> :
            i \in 1 .. Len(DeclaredSelected(run.all))}

\* the synchronous part of test() has a next step: a suite to begin, a
\* test case to run or skip, or the end of the loops
CanStep ==
  \/ InSuiteLoop /\ ti = 0
  \/ InTestLoop
  \/ LoopsDone

\* C9: an evaluation that throws gives the entry {pass: false, error}
\* without res and time; the exception does not end the run: test() always
\* has a next step, run() is not rejected while tests are executed, and a
\* run that ended has an entry for every selected test case
C9_ThrowIsRecorded ==
  /\ \A run \in Runs : \A i \in CallsOf(run, "eval") :
       LET c == run.calls[i]
       IN c.out.kind = "throw"
            => EntryOf(run.results, <<c.suite, c.test>>)
                 = [pass |-> FALSE, error |-> c.out.error]
  /\ \A run \in Finished : \A sn \in DeclaredSuiteNames :
       \A tn \in SelectedIn(sn, run.all) : <<sn, tn>> \in EntriesOf(run.results)
  /\ pc = "testing" => CanStep
  /\ pc = "rejected" => vmCalls = <<>>

\* C9 witness: a run ended in which an evaluation threw and a later test
\* case was still evaluated
C9_Witness ==
  \E run \in Finished : \E i \in CallsOf(run, "eval") :
    /\ run.calls[i].out.kind = "throw"
    /\ \E j \in CallsOf(run, "eval") :
         /\ j > i
         /\ <<run.calls[j].suite, run.calls[j].test>>
              \in EntriesOf(run.results)

\* C10: once the session runs, the controller is in its loop (awaiting a
\* key or inside the command of a key) or the process has exited with
\* code 0
C10_OnlyExitZero ==
  startTime # -1 =>
    \/ pc \in {"awaitKey", "resolved", "awaitFile", "testing"}
    \/ pc = "exited" /\ exitCode = 0

\* ------------------------------------------------------------------------
\* the keys of a session
\* ------------------------------------------------------------------------
Last(q) == q[Len(q)]

\* the command the controller took last
LastKeyIs(k) == ConsumedKeys # <<>> /\ Last(ConsumedKeys).key = k

\* every test case of every suite, as (suite name, test name) pairs
AllEntries ==
  {<<DeclaredTests[i].suite, DeclaredTests[i].test>> :
     i \in 1 .. Len(DeclaredTests)}

\* the runs of test() that were started, finished or not
Started ==
  Cardinality({i \in 1 .. Len(keylog) :
                 /\ keylog[i].ev = "key"
                 /\ keylog[i].id # 0
                 /\ keylog[i].key \in {"space", "return"}})

\* C11: once return was consumed, the one full run is under way, or it has
\* ended with a report with all=true that holds every test case, the
\* process has exited with code 0 and no read is pending
C11_ReturnSubmitsAndExits ==
  LastKeyIs("return") =>
    \/ pc = "resolved" /\ promises = <<>>
    \/ pc \in {"awaitFile", "testing"} /\ all /\ promises = <<>>
    \/ /\ pc = "exited"
       /\ exitCode = 0
       /\ promises = <<>>
       /\ reports # <<>>
       /\ Last(reports).all
       /\ EntriesOf(Last(reports).results) = AllEntries

\* C12: once space was consumed, the one visible-only run is under way, or
\* it has ended with a report with all=false and the controller awaits the
\* next key; and a run with all=false evaluates no hidden test case
C12_SpaceRunsVisibleOnly ==
  /\ LastKeyIs("space") =>
       \/ pc = "resolved" /\ promises = <<>>
       \/ pc \in {"awaitFile", "testing"} /\ ~all /\ promises = <<>>
       \/ /\ pc = "awaitKey"
          /\ Len(promises) = 1
          /\ Len(reports) = Started
          /\ ~Last(reports).all
  /\ \A run \in Runs : \A i \in CallsOf(run, "eval") :
       ~run.all => DeclaredTest(run.calls[i].suite, run.calls[i].test).visible

\* the keys that neither run the tests nor exit
IdleKeys == Keys \ {"space", "return", "x", "c"}

\* the step resolves a read with a key in K, or it is taken while the
\* controller holds such a key
Consumes(K) ==
  \/ pc = "awaitKey" /\ pc' = "resolved" /\ Last(ConsumedKeys').key \in K
  \/ pc = "resolved" /\ char \in K

\* C13: from the keypress that resolves the read with t or with a key other
\* than space, return, x and c to the next read, every step keeps the start
\* time, the latest report and the contexts created; the controller ends
\* up awaiting the next key with one read pending
C13_IdleKeysChangeNothing ==
  [][Consumes(IdleKeys) =>
       /\ UNCHANGED <<startTime, testResults, reports, vmCalls, exitCode,
                      hostBenchmark, cid, testVars>>
       /\ pc' \in {"resolved", "awaitKey"}
       /\ pc' = "awaitKey" => Len(promises') = 1]_vars

\* C13 witness: t was consumed after a run that left a report, and the
\* controller awaits the next key
C13_Witness ==
  /\ LastKeyIs("t")
  /\ testResults # NoReport
  /\ pc = "awaitKey"
  /\ Len(promises) = 1

\* ------------------------------------------------------------------------
\* the reads of a session
\* ------------------------------------------------------------------------
\* the reads and the keypress events that resolved one, in order
ReadsAndConsumed == SelectSeq(keylog, LAMBDA e : e.ev = "read" \/ e.id # 0)

\* C19: at most one read is pending, and only while the controller awaits
\* a key; reads and consumed keys alternate, the i-th read being resolved
\* by the i-th consumed key before read i+1 is enqueued; and when a read is
\* pending every test run that was started has ended with its report
C19_SerialReads ==
  /\ Len(promises) <= 1
  /\ promises # <<>> => pc = "awaitKey" /\ results = NoReport
  /\ pc = "awaitKey" => Len(promises) = 1 /\ Len(reports) = Started
  /\ \A i \in 1 .. Len(ReadsAndConsumed) :
       IF i % 2 = 1
       THEN ReadsAndConsumed[i] = ReadEv((i + 1) \div 2)
       ELSE /\ ReadsAndConsumed[i].ev = "key"
            /\ ReadsAndConsumed[i].id = i \div 2
  /\ Len(promises) = Len(ReadsAndConsumed) % 2

\* C19 witness: the second read of the session is pending, after a whole
\* test run
C19_Witness ==
  /\ pc = "awaitKey"
  /\ promises = <<2>>
  /\ Len(reports) = 1
  /\ Len(ReadsAndConsumed) = 3

\* the keypress events delivered so far
Delivered == {i \in 1 .. Len(keylog) : keylog[i].ev = "key"}

\* the step delivers a keypress event that resolves no read
Drops ==
  /\ Len(keylog') = Len(keylog) + 1
  /\ Last(keylog').ev = "key"
  /\ Last(keylog').id = 0

\* C20: a keypress delivered while no read is pending changes nothing but
\* stdin; every key pressed is delivered at most once; and the key that
\* resolves a read is the first one delivered after that read was enqueued
C20_DroppedKeyIgnored ==
  /\ [][Drops => /\ promises = <<>>
                 /\ UNCHANGED <<cid, pc, exitCode, startTime, instance,
                                promises, nkeys, testVars, hostBenchmark>>]_vars
  /\ [](/\ Cardinality(Delivered) + Len(kbuf) = nkeys
        /\ \A p \in 1 .. Len(keylog) :
             /\ keylog[p].ev = "read" /\ p < Len(keylog)
                  => keylog[p + 1] = KeyEv(keylog[p + 1].key, keylog[p].id)
             /\ keylog[p].ev = "key" /\ keylog[p].id = 0
                  => p > 1 /\ keylog[p - 1].ev = "key")

\* C20 witness: a key was delivered and dropped while test() awaited the
\* file, the run ended, and the next read is still pending
C20_Witness ==
  /\ pc = "awaitKey"
  /\ Len(promises) = 1
  /\ testResults # NoReport
  /\ \E p \in 2 .. Len(keylog) :
       /\ keylog[p].ev = "key" /\ keylog[p].id = 0
       /\ keylog[p - 1].ev = "key" /\ keylog[p - 1].key = "space"
       /\ keylog[p - 1].id # 0

\* ------------------------------------------------------------------------
\* the reads of concurrent callers
\* ------------------------------------------------------------------------
Reads == {i \in 1 .. Len(keylog) : keylog[i].ev = "read"}
Resolving == {i \in Delivered : keylog[i].id # 0}

\* the number of reads pending just before the log's entry p
PendingBefore(p) ==
  Cardinality({i \in Reads : i < p}) - Cardinality({i \in Resolving : i < p})

\* C14: the reads are resolved in the order of their calls, each once and
\* each by its own keypress, which is the earliest keypress delivered that
\* found a read pending; a keypress is dropped only when no read is
\* pending; the pending reads are the unresolved ones in call order; and
\* there is one reader instance, created by the first read
C14_FifoWithoutLoss ==
  /\ \A j \in 1 .. Len(ConsumedKeys) : ConsumedKeys[j].id = j
  /\ \A p \in Delivered : (keylog[p].id = 0) = (PendingBefore(p) = 0)
  /\ promises = [i \in 1 .. (Cardinality(Reads) - Cardinality(Resolving)) |->
                   Cardinality(Resolving) + i]
  /\ Cardinality(Delivered) + Len(kbuf) = nkeys
  /\ instance = (Reads # {})

\* C14 witness: two reads were pending together and two different keys
\* resolved them, the first key the first read
C14_Witness ==
  /\ Len(keylog) >= 4
  /\ keylog[1] = ReadEv(1)
  /\ keylog[2] = ReadEv(2)
  /\ keylog[3].ev = "key" /\ keylog[3].id = 1
  /\ keylog[4].ev = "key" /\ keylog[4].id = 2
  /\ keylog[3].key # keylog[4].key

\* ------------------------------------------------------------------------
\* isolation of the vm contexts
\* ------------------------------------------------------------------------
\* the results runTest can give for a test case and a text, given what is
\* on the host's Benchmark object
PossibleResults(test, text, host) ==
  {runTestTrace("add", test, text, bench).result :
     bench \in BenchChoices("add", test, text, host)}

\* C15: whatever calls of runTest were made before with the same solution
\* text, a test case can give the results it can give in a fresh process
C15_OutcomeIndependentOfHistory ==
  pc = "isolation" =>
    \A test \in IsoTests :
      PossibleResults(test, unit.content, hostBenchmark)
        = PossibleResults(test, unit.content, FreshHost)

\* ------------------------------------------------------------------------
\* properties of validateChallengeById
\* ------------------------------------------------------------------------
RequiredFields == {"fn_name", "template", "tests"}
OptionalFields == {"sample_solution", "recommended_time_ms"}

\* the lines printed at a level, without the summary line
Lines(level) ==
  SelectSeq(validation.msgs,
            LAMBDA m : m.level = level /\ ~Has(m.msg, "n"))

\* the number in the summary line "failed with N errors"
ReportedErrors ==
  LET sums == SelectSeq(validation.msgs,
                        LAMBDA m : m.level = "error" /\ Has(m.msg, "n"))
  IN IF sums = <<>> THEN 0 ELSE sums[1].msg.n

ValidationDone == validation.on /\ validation.phase = "done"

\* C16: validating a challenge that lacks only tests ends with the one
\* error "no tests" and the summary "failed with 1 errors"
C16_MissingTestsOneError ==
  (/\ ValidationDone
   /\ validation.known
   /\ DOMAIN validation.ch = (RequiredFields \cup OptionalFields) \ {"tests"})
    => /\ Lines("error") = <<[level |-> "error", msg |-> Msg("no tests")]>>
       /\ ReportedErrors = 1

\* the lines of the catch block
Problems ==
  SelectSeq(validation.msgs, LAMBDA m : Has(m.msg, "cid"))

\* validateChallengeById has a next step
CanValidate ==
  \/ validation.phase \in {"fields", "suites", "caught", "summary"}
  \/ /\ validation.phase = "tests"
     /\ validation.i <= Len(Visits(validation.ch.tests))

\* C17: no exception leaves validateChallengeById and it always has a next
\* step until it is done; an exception thrown inside it gives exactly one
\* line, an error that names the challenge id, and every error line is
\* counted once
C17_NeverThrows ==
  validation.on =>
    /\ validation.phase # "threw"
    /\ validation.phase # "done" => CanValidate
    /\ Len(Problems) <= 1
    /\ \A j \in 1 .. Len(Problems) :
         Problems[j].level = "error" /\ Problems[j].msg.cid = cid
    /\ validation.phase \in {"summary", "done"}
         => (Len(Problems) = 1) = Has(validation, "e")
    /\ validation.errors =
         Cardinality({j \in 1 .. Len(validation.msgs) :
                        validation.msgs[j].level = "error"})

\* C17 witness: validation is done after a null test case threw, a test
\* case having been run before it
C17_Witness ==
  /\ ValidationDone
  /\ Has(validation, "e")
  /\ validation.log # <<>>
  /\ Len(Problems) = 1

\* the errors the test cases that were run account for: one for a test
\* case without res, one for a test case on which runTest with the sample
\* solution does not pass
TestErrors ==
  LET F[n \in 0 .. Len(validation.log)] ==
        IF n = 0 THEN 0
        ELSE F[n - 1]
             + (IF validation.log[n].case.res = Undefined THEN 1 ELSE 0)
             + (IF validation.log[n].result.pass THEN 0 ELSE 1)
  IN F[Len(validation.log)]

\* a line "no <field>" was printed at the level
Said(level, field) ==
  \E j \in 1 .. Len(validation.msgs) :
    validation.msgs[j] = [level |-> level, msg |-> Msg("no " \o field)]

====
